---- MODULE Spec2Model ----
(***************************************************************************)
(* Key predistribution system (package kps): the pool scheme (KeyServer,   *)
(* SharedKeyService, DataProvisioningService) and the matrix scheme        *)
(* (MatrixKeyServer), modelled as state machines.                          *)
(*                                                                         *)
(* Python lists are 0-indexed; the sequences here are 1-indexed, so row i  *)
(* of the code is row i+1 of the model.  Key ids keep the code's numbering *)
(* (0 .. KEY_POOL_SIZE-1) because they are dictionary keys, not positions. *)
(***************************************************************************)
EXTENDS Integers, Sequences, FiniteSets, TLC

VARIABLES
    scheme,         \* which demo main() runs: "pool" or "matrix"
    m_built,        \* a MatrixKeyServer object exists (__init__ returned)
    prime,          \* MatrixKeyServer.prime
    dimension,      \* MatrixKeyServer.dimension
    secret_matrix,  \* MatrixKeyServer.secret_matrix
    m_users,        \* MatrixKeyServer._users: user id -> MatrixUser
    config,         \* KeyServer.config (KEY_POOL_SIZE, KEYS_PER_USER)
    keys,           \* KeyServer._keys: key id -> Key
    users,          \* KeyServer._users: user id -> User
    file,           \* DATA_DIR/STATE_FILE on disk
    snapshot,       \* history: what the server held when save_state last wrote the file
    ret,            \* outcome of the last call: [op, args, kind, val]
    calls           \* per thread, the call it is in: [pc, args, local, result]

matrixVars == <<m_built, prime, dimension, secret_matrix, m_users>>

poolVars == <<config, keys, users>>

diskVars == <<file, snapshot>>

vars == <<scheme, matrixVars, poolVars, diskVars, ret, calls>>

----------------------------------------------------------------------------
(* Bounds of the model *)

\* secrets.randbelow(n) is sampled over the values 0 .. min(n-1, MaxDraw)
MaxDraw == 4

\* values handed to MatrixKeyServer(prime=..., dimension=...); __init__ tests
\* prime > 2 and not primality, so 4 is a modulus it accepts
PrimeInputs == {2, 3, 4}
DimensionInputs == {0, 1, 2}

\* user ids handed to the matrix scheme's calls
MatrixUserIds == {"A", "B"}

----------------------------------------------------------------------------
(* Outcomes of a call *)

NoArgs == <<>>
NoVal == <<>>

Returned(op, args, val) == [op |-> op, args |-> args, kind |-> "return", val |-> val]

Raised(op, args, exc) == [op |-> op, args |-> args, kind |-> exc, val |-> NoVal]

\* the threads that call into one server object
Threads == {"t1", "t2"}

\* a thread that is in no call and has finished none
Idle == [pc |-> "idle", args |-> NoArgs, local |-> NoVal, result |-> NoVal]

NoCalls == [t \in Threads |-> Idle]

----------------------------------------------------------------------------
(* Matrix scheme: pure parts *)

\* mutant: the upper end n is drawn too
RandBelowInclusive(n) == {v \in 0..n : v <= MaxDraw}

RandBelow(n) == {v \in 0..(n - 1) : v <= MaxDraw}

RECURSIVE SumTo(_, _)
SumTo(f, n) == IF n = 0 THEN 0 ELSE f[n] + SumTo(f, n - 1)

\* the (i, j) with i <= j: one draw each, in the loops' order
UpperPairs(d) == {p \in (1..d) \X (1..d) : p[1] <= p[2]}

\* mutant: only the first row is built
GenerateFirstRowOnly(d, draw) ==
    [i \in 1..1 |-> [j \in 1..d |-> draw[<<i, j>>]]]

\* mutant: the value is stored at [i][j] only, [j][i] keeps its 0
GenerateUnmirroredMatrix(d, draw) ==
    [i \in 1..d |-> [j \in 1..d |-> IF i <= j THEN draw[<<i, j>>] ELSE 0]]

\* value drawn for (i, j), j >= i, is stored at [i][j] and at [j][i]
GenerateSymmetricMatrix(d, draw) ==
    [i \in 1..d |-> [j \in 1..d |->
        IF i <= j THEN draw[<<i, j>>] ELSE draw[<<j, i>>]]]

\* mutant: the row sums are not reduced modulo the prime
MatrixVectorProductNoMod(matrix, d, p, vector) ==
    [r \in 1..Len(matrix) |->
        SumTo([col \in 1..d |-> matrix[r][col] * vector[col]], d)]

MatrixVectorProduct(matrix, d, p, vector) ==
    [r \in 1..Len(matrix) |->
        SumTo([col \in 1..d |-> matrix[r][col] * vector[col]], d) % p]

MatrixUser(user_id, secret_vector, public_vector) ==
    [user_id |-> user_id, secret_vector |-> secret_vector,
     public_vector |-> public_vector]

Min(a, b) == IF a <= b THEN a ELSE b

\* sum(s * r for s, r in zip(sender.secret_vector, receiver.public_vector)) % prime
SharedValue(sender, receiver, p) ==
    LET n == Min(Len(sender.secret_vector), Len(receiver.public_vector))
    IN  SumTo([k \in 1..n |-> sender.secret_vector[k] * receiver.public_vector[k]], n) % p

----------------------------------------------------------------------------
(* Matrix scheme: operations *)

\* mutant: the prime 2 is accepted
PrimeRejectedBelowTwo(p) == p < 2

\* if prime <= 2: raise ValueError
PrimeRejected(p) == p <= 2

\* if dimension <= 0: raise ValueError
DimensionRejected(d) == d <= 0

\* MatrixKeyServer(prime=p, dimension=d)
MatrixInit(p, d) ==
    /\ scheme = "matrix"
    /\ ~m_built
    /\ IF PrimeRejected(p) THEN
            /\ ret' = Raised("MatrixKeyServer", <<p, d>>, "ValueError:prime")
            /\ UNCHANGED matrixVars
       ELSE IF DimensionRejected(d) THEN
            /\ ret' = Raised("MatrixKeyServer", <<p, d>>, "ValueError:dimension")
            /\ UNCHANGED matrixVars
       ELSE \E draw \in [UpperPairs(d) -> RandBelow(p)] :
            /\ prime' = p
            /\ dimension' = d
            /\ secret_matrix' = GenerateSymmetricMatrix(d, draw)
            /\ m_users' = <<>>
            /\ m_built' = TRUE
            /\ ret' = Returned("MatrixKeyServer", <<p, d>>, NoVal)
    /\ UNCHANGED <<scheme, calls, poolVars, diskVars>>

MatrixRegisterUser(user_id) ==
    /\ scheme = "matrix"
    /\ m_built
    /\ IF user_id \in DOMAIN m_users THEN
            /\ ret' = Returned("register_user", <<user_id>>, m_users[user_id])
            /\ UNCHANGED m_users
       ELSE \E secret_vector \in [1..dimension -> RandBelow(prime)] :
            LET public_vector ==
                    MatrixVectorProduct(secret_matrix, dimension, prime, secret_vector)
                user == MatrixUser(user_id, secret_vector, public_vector)
            IN  /\ m_users' = (user_id :> user) @@ m_users
                /\ ret' = Returned("register_user", <<user_id>>, user)
    /\ UNCHANGED <<scheme, calls, m_built, prime, dimension, secret_matrix, poolVars, diskVars>>

MatrixGetUser(user_id) ==
    /\ scheme = "matrix"
    /\ m_built
    /\ ret' = IF user_id \notin DOMAIN m_users
              THEN Raised("get_user", <<user_id>>, "KeyError")
              ELSE Returned("get_user", <<user_id>>, m_users[user_id])
    /\ UNCHANGED <<scheme, calls, matrixVars, poolVars, diskVars>>

MatrixAllUsers ==
    /\ scheme = "matrix"
    /\ m_built
    /\ ret' = Returned("all_users", NoArgs, m_users)
    /\ UNCHANGED <<scheme, calls, matrixVars, poolVars, diskVars>>

\* the value compute_shared_value returns, or the error it raises
ComputeSharedValueOutcome(sender_id, receiver_id) ==
    LET op == "compute_shared_value"
        args == <<sender_id, receiver_id>>
    IN  IF sender_id \notin DOMAIN m_users \/ receiver_id \notin DOMAIN m_users
        THEN Raised(op, args, "KeyError")
        ELSE LET sender == m_users[sender_id]
                 receiver == m_users[receiver_id]
             IN  IF \/ Len(sender.secret_vector) # dimension
                    \/ Len(receiver.public_vector) # dimension
                 THEN Raised(op, args, "ValueError:dimension")
                 ELSE Returned(op, args, SharedValue(sender, receiver, prime))

ComputeSharedValue(sender_id, receiver_id) ==
    /\ scheme = "matrix"
    /\ m_built
    /\ ret' = ComputeSharedValueOutcome(sender_id, receiver_id)
    /\ UNCHANGED <<scheme, calls, matrixVars, poolVars, diskVars>>

MatrixNext ==
    \/ \E p \in PrimeInputs, d \in DimensionInputs : MatrixInit(p, d)
    \/ \E u \in MatrixUserIds : MatrixRegisterUser(u)
    \/ \E u \in MatrixUserIds : MatrixGetUser(u)
    \/ MatrixAllUsers
    \/ \E a \in MatrixUserIds, b \in MatrixUserIds : ComputeSharedValue(a, b)

----------------------------------------------------------------------------
(* Pool scheme: bounds *)

\* KeyDistributionConfig(KEY_POOL_SIZE = ..., KEYS_PER_USER = 0..MaxKeysPerUser)
PoolSizeInputs == {0, 1, 3}
MaxKeysPerUser == 2

\* the pool sizes of the runs that also save and load the state file
PersistPoolSizeInputs == {0, 1, 2}

\* secrets.token_hex(n) is sampled over the tokens whose n bytes are all the same
\* byte, taken from this set (0x1f, 0xab)
TokenByteDraws == {31, 171}

\* user ids handed to the pool scheme's calls
PoolUserIds == {"alice", "bob", "carol"}

\* key ids handed to get_key_value
KeyIdInputs == {0, 1, 2, 3}

Configs ==
    [KEY_POOL_SIZE : PoolSizeInputs, KEYS_PER_USER : 0..MaxKeysPerUser]

PersistConfigs ==
    [KEY_POOL_SIZE : PersistPoolSizeInputs, KEYS_PER_USER : 0..MaxKeysPerUser]

----------------------------------------------------------------------------
(* Pool scheme: bytes, hex strings, decimal strings, digests *)

\* nbytes of secrets.token_hex(16)
TokenNBytes == 16

HexChars ==
    <<"0", "1", "2", "3", "4", "5", "6", "7", "8", "9", "a", "b", "c", "d", "e", "f">>

\* value of each hex digit
HexValues == [c \in {HexChars[i] : i \in 1..16} |-> CHOOSE v \in 0..15 : HexChars[v + 1] = c]

HexValue(c) == HexValues[c]

\* bytes.hex(): two lowercase hex digits per byte, high nibble first
Hexlify(bytes) ==
    [i \in 1..(2 * Len(bytes)) |->
        IF i % 2 = 1 THEN HexChars[(bytes[(i + 1) \div 2] \div 16) + 1]
                     ELSE HexChars[(bytes[i \div 2] % 16) + 1]]

\* bytes.fromhex() of an even-length hex string
BytesFromHex(hex) ==
    [i \in 1..(Len(hex) \div 2) |->
        16 * HexValue(hex[2 * i - 1]) + HexValue(hex[2 * i])]

\* the values secrets.token_hex(nbytes) can return
TokenHex(nbytes) == {Hexlify([i \in 1..nbytes |-> b]) : b \in TokenByteDraws}

\* the values of secrets.token_hex(16)
Tokens == TokenHex(TokenNBytes)

DecChars == <<"0", "1", "2", "3", "4", "5", "6", "7", "8", "9">>

\* str(n) of an int n >= 0
RECURSIVE StrOfInt(_)
StrOfInt(n) ==
    IF n < 10 THEN <<DecChars[n + 1]>>
    ELSE Append(StrOfInt(n \div 10), DecChars[(n % 10) + 1])

\* int(s) of a string of decimal digits
RECURSIVE IntOfStr(_)
IntOfStr(s) ==
    IF Len(s) = 0 THEN 0
    ELSE 10 * IntOfStr(SubSeq(s, 1, Len(s) - 1))
         + (CHOOSE v \in 0..9 : DecChars[v + 1] = s[Len(s)])

\* hashlib.sha256(material).hexdigest(): SHA-256 is kept symbolic (two digests are
\* equal exactly when their inputs are), the hex form is a tag around the digest
Sha256(material) == [sha256 |-> material]

HexDigest(digest) == [hex |-> digest]

\* bytes.fromhex() of a digest's hex form
DigestFromHex(hexdigest) == hexdigest.hex

----------------------------------------------------------------------------
(* Pool scheme: models.py *)

Key(key_id, value) == [key_id |-> key_id, value |-> value]

\* mutant: the user object carries another id than the one registered
UserUnderOtherId(user_id, key_ids) == [user_id |-> "mallory", key_ids |-> key_ids]

User(user_id, key_ids) == [user_id |-> user_id, key_ids |-> key_ids]

EmptyDict == <<>>

----------------------------------------------------------------------------
(* Pool scheme: KeyServer *)

\* mutant: the ids drawn are one above ids of the pool
SampleIdsAbovePool(population, k) ==
    {ids \in SUBSET {key_id + 1 : key_id \in population} : Cardinality(ids) = k}

\* mutant: k draws with replacement, so fewer than k distinct ids may come out
SampleWithReplacement(population, k) ==
    {ids \in SUBSET population :
        /\ Cardinality(ids) <= k
        /\ (k > 0 /\ population # {}) => ids # {}}

\* set(random.sample(population, k)): k distinct elements of the population
SampleKeyIds(population, k) ==
    {ids \in SUBSET population : Cardinality(ids) = k}

\* the pools generate_key_pool can build: ids range(KEY_POOL_SIZE), a fresh token each
GeneratedPools(pool_size) ==
    {[key_id \in 0..(pool_size - 1) |-> Key(key_id, value[key_id])] :
        value \in [0..(pool_size - 1) -> Tokens]}

GenerateKeyPool ==
    /\ scheme = "pool"
    /\ keys' \in GeneratedPools(config.KEY_POOL_SIZE)
    /\ ret' = Returned("generate_key_pool", NoArgs, NoVal)
    /\ UNCHANGED <<scheme, calls, matrixVars, config, users, diskVars>>

\* mutant: the existing registration is not looked up
NeverRegistered(user_id) == FALSE

IsRegistered(user_id) == user_id \in DOMAIN users

\* mutant: a pool one key short passes the check
NotEnoughKeysOffByOne(k, ks) == k > Cardinality(DOMAIN ks) + 1

\* if self.config.KEYS_PER_USER > len(self._keys): raise ValueError
NotEnoughKeys(k, ks) == k > Cardinality(DOMAIN ks)

\* mutant: the user map is overwritten by the new user alone
WithOnlyUser(us, user) == (user.user_id :> user)

\* self._users[user_id] = user
WithUser(us, user) == (user.user_id :> user) @@ us

RegisterUser(user_id) ==
    /\ scheme = "pool"
    /\ IF DOMAIN keys = {} THEN
            /\ ret' = Raised("register_user", <<user_id>>, "RuntimeError:empty_pool")
            /\ UNCHANGED users
       ELSE IF IsRegistered(user_id) THEN
            /\ ret' = Returned("register_user", <<user_id>>, users[user_id])
            /\ UNCHANGED users
       ELSE IF NotEnoughKeys(config.KEYS_PER_USER, keys) THEN
            /\ ret' = Raised("register_user", <<user_id>>, "ValueError:not_enough_keys")
            /\ UNCHANGED users
       ELSE IF \/ config.KEYS_PER_USER < 0
               \/ config.KEYS_PER_USER > Cardinality(DOMAIN keys) THEN
            \* random.sample rejects a sample size that is negative or above the population
            /\ ret' = Raised("register_user", <<user_id>>, "ValueError:sample")
            /\ UNCHANGED users
       ELSE \E key_ids \in SampleKeyIds(DOMAIN keys, config.KEYS_PER_USER) :
            LET user == User(user_id, key_ids)
            IN  /\ users' = WithUser(users, user)
                /\ ret' = Returned("register_user", <<user_id>>, user)
    /\ UNCHANGED <<scheme, calls, matrixVars, config, keys, diskVars>>

None == [none |-> TRUE]

\* KeyServer.get_user: self._users.get(user_id)
GetUserOf(us, user_id) == IF user_id \in DOMAIN us THEN us[user_id] ELSE None

GetUser(user_id) ==
    /\ scheme = "pool"
    /\ ret' = Returned("get_user", <<user_id>>, GetUserOf(users, user_id))
    /\ UNCHANGED <<scheme, calls, matrixVars, poolVars, diskVars>>

GetAllUsers ==
    /\ scheme = "pool"
    /\ ret' = Returned("get_all_users", NoArgs, users)
    /\ UNCHANGED <<scheme, calls, matrixVars, poolVars, diskVars>>

GetAllKeys ==
    /\ scheme = "pool"
    /\ ret' = Returned("get_all_keys", NoArgs, keys)
    /\ UNCHANGED <<scheme, calls, matrixVars, poolVars, diskVars>>

GetKeyValue(key_id) ==
    /\ scheme = "pool"
    /\ ret' = IF key_id \in DOMAIN keys
              THEN Returned("get_key_value", <<key_id>>, keys[key_id].value)
              ELSE Raised("get_key_value", <<key_id>>, "KeyError")
    /\ UNCHANGED <<scheme, calls, matrixVars, poolVars, diskVars>>

----------------------------------------------------------------------------
(* Pool scheme: SharedKeyService *)

\* sorted(ids): ascending
RECURSIVE Sorted(_)
Sorted(ids) ==
    IF ids = {} THEN <<>>
    ELSE LET least == CHOOSE m \in ids : \A n \in ids : m <= n
         IN  <<least>> \o Sorted(ids \ {least})

\* material = b""; for key_id in order: material += bytes.fromhex(key value)
RECURSIVE Material(_, _)
Material(ks, order) ==
    IF Len(order) = 0 THEN <<>>
    ELSE Material(ks, SubSeq(order, 1, Len(order) - 1))
         \o BytesFromHex(ks[order[Len(order)]].value)

BothRegistered(us, user_a_id, user_b_id) ==
    /\ GetUserOf(us, user_a_id) # None
    /\ GetUserOf(us, user_b_id) # None

\* mutant: the first user's key ids, not intersected
IntersectionLeftOnly(us, user_a_id, user_b_id) == us[user_a_id].key_ids

\* user_a.key_ids.intersection(user_b.key_ids), both users registered
Intersection(us, user_a_id, user_b_id) ==
    us[user_a_id].key_ids \cap us[user_b_id].key_ids

\* mutant: an unregistered id is taken for a user without keys
CommonKeyIdsOfUnknownEmpty(us, user_a_id, user_b_id) ==
    Returned("common_key_ids", <<user_a_id, user_b_id>>,
             IF BothRegistered(us, user_a_id, user_b_id)
             THEN Intersection(us, user_a_id, user_b_id) ELSE {})

CommonKeyIdsOutcome(us, user_a_id, user_b_id) ==
    IF ~BothRegistered(us, user_a_id, user_b_id)
    THEN Raised("common_key_ids", <<user_a_id, user_b_id>>, "ValueError:unregistered")
    ELSE Returned("common_key_ids", <<user_a_id, user_b_id>>,
                  Intersection(us, user_a_id, user_b_id))

\* mutant: descending order
DerivationOrderDescending(shared_ids) ==
    LET n == Cardinality(shared_ids)
    IN  [i \in 1..n |-> Sorted(shared_ids)[n + 1 - i]]

\* order in which compute_shared_key concatenates the shared keys
DerivationOrder(shared_ids) == Sorted(shared_ids)

\* there are no shared ids: compute_shared_key returns None before hashing
NoSharedIds(shared_ids) == shared_ids = {}

\* compute_shared_key on a server holding keys ks and users us
SharedKeyOutcome(ks, us, user_a_id, user_b_id) ==
    LET op == "compute_shared_key"
        args == <<user_a_id, user_b_id>>
    IN  IF ~BothRegistered(us, user_a_id, user_b_id)
        THEN Raised(op, args, "ValueError:unregistered")
        ELSE LET shared_ids == Intersection(us, user_a_id, user_b_id)
             IN  IF NoSharedIds(shared_ids) THEN Returned(op, args, None)
                 ELSE IF \E key_id \in shared_ids : key_id \notin DOMAIN ks
                 THEN Raised(op, args, "KeyError")
                 ELSE Returned(op, args,
                        HexDigest(Sha256(Material(ks, DerivationOrder(shared_ids)))))

CommonKeyIds(user_a_id, user_b_id) ==
    /\ scheme = "pool"
    /\ ret' = CommonKeyIdsOutcome(users, user_a_id, user_b_id)
    /\ UNCHANGED <<scheme, calls, matrixVars, poolVars, diskVars>>

ComputeSharedKey(user_a_id, user_b_id) ==
    /\ scheme = "pool"
    /\ ret' = SharedKeyOutcome(keys, users, user_a_id, user_b_id)
    /\ UNCHANGED <<scheme, calls, matrixVars, poolVars, diskVars>>

ComputeSharedKeyBytes(user_a_id, user_b_id) ==
    /\ scheme = "pool"
    /\ LET hex_key == SharedKeyOutcome(keys, users, user_a_id, user_b_id)
           op == "compute_shared_key_bytes"
       IN  ret' = IF hex_key.kind # "return" THEN [hex_key EXCEPT !.op = op]
                  ELSE IF hex_key.val = None THEN Returned(op, hex_key.args, None)
                  ELSE Returned(op, hex_key.args, DigestFromHex(hex_key.val))
    /\ UNCHANGED <<scheme, calls, matrixVars, poolVars, diskVars>>

PoolNext ==
    \/ GenerateKeyPool
    \/ \E u \in PoolUserIds : RegisterUser(u)
    \/ \E u \in PoolUserIds : GetUser(u)
    \/ GetAllUsers
    \/ GetAllKeys
    \/ \E k \in KeyIdInputs : GetKeyValue(k)
    \/ \E a \in PoolUserIds, b \in PoolUserIds : CommonKeyIds(a, b)
    \/ \E a \in PoolUserIds, b \in PoolUserIds : ComputeSharedKey(a, b)
    \/ \E a \in PoolUserIds, b \in PoolUserIds : ComputeSharedKeyBytes(a, b)

----------------------------------------------------------------------------
(* Pool scheme: DataProvisioningService and the state file *)

\* user ids handed to the calls of the persistence runs
PersistUserIds == {"alice", "bob"}

NoFile == [exists |-> FALSE]

NoSnapshot == [taken |-> FALSE]

Range(seq) == {seq[i] : i \in 1..Len(seq)}

\* list(a_set): the elements once each, in the order the set iterates them
ListOfSet(a_set) ==
    CHOOSE seq \in [1..Cardinality(a_set) -> a_set] : Range(seq) = a_set

\* {str(key_id): asdict(key) for key_id, key in keys.items()}
SerializeKeys(ks) ==
    [key_id_str \in {StrOfInt(key_id) : key_id \in DOMAIN ks} |->
        LET key == ks[CHOOSE key_id \in DOMAIN ks : StrOfInt(key_id) = key_id_str]
        IN  [key_id |-> key.key_id, value |-> key.value]]

\* users[user_id] = asdict(user) with key_ids turned into a list
SerializeUsers(us) ==
    [user_id \in DOMAIN us |->
        [user_id |-> us[user_id].user_id, key_ids |-> ListOfSet(us[user_id].key_ids)]]

\* the JSON document save_state writes
SavedState(cfg, ks, us) ==
    [exists |-> TRUE, config |-> cfg, keys |-> SerializeKeys(ks), users |-> SerializeUsers(us)]

\* keys[int(key_id_str)] = Key(key_id=int(key_id_str), value=key_dict["value"])
ParseKeys(json_keys) ==
    [key_id \in {IntOfStr(key_id_str) : key_id_str \in DOMAIN json_keys} |->
        LET key_id_str == CHOOSE str \in DOMAIN json_keys : IntOfStr(str) = key_id
        IN  Key(key_id, json_keys[key_id_str].value)]

\* mutant: the key ids are read under a name the file does not hold
ParseUsersNoKeyIds(json_users) ==
    [user_id \in DOMAIN json_users |-> User(user_id, {})]

\* users[user_id] = User(user_id=user_id, key_ids=set(user_dict["key_ids"]))
ParseUsers(json_users) ==
    [user_id \in DOMAIN json_users |-> User(user_id, Range(json_users[user_id].key_ids))]

\* KeyServer(config) again, as a restarted process does: an empty server
KeyServerInit ==
    /\ scheme = "pool"
    /\ keys' = EmptyDict
    /\ users' = EmptyDict
    /\ ret' = Returned("KeyServer", NoArgs, NoVal)
    /\ UNCHANGED <<scheme, calls, matrixVars, config, diskVars>>

SaveState ==
    /\ scheme = "pool"
    /\ file' = SavedState(config, keys, users)
    /\ snapshot' = [taken |-> TRUE, config |-> config, keys |-> keys, users |-> users]
    /\ ret' = Returned("save_state", NoArgs, "path")
    /\ UNCHANGED <<scheme, calls, matrixVars, poolVars>>

\* KeyServer.replace_state(keys, users)
ReplaceState(new_keys, new_users) ==
    /\ keys' = new_keys
    /\ users' = new_users

\* json.load(f) raises on a document that is not JSON
NotJson(doc) == "truncated" \in DOMAIN doc

\* state.get(name, {})
Section(doc, name) == IF name \in DOMAIN doc THEN doc[name] ELSE EmptyDict

\* key_dict["value"] raises KeyError on a key entry without a value
KeyWithoutValue(json_keys) ==
    \E key_id_str \in DOMAIN json_keys : "value" \notin DOMAIN json_keys[key_id_str]

LoadState ==
    /\ scheme = "pool"
    /\ IF ~file.exists THEN
            /\ ret' = Raised("load_state", NoArgs, "FileNotFoundError")
            /\ UNCHANGED <<keys, users>>
       ELSE IF NotJson(file) THEN
            /\ ret' = Raised("load_state", NoArgs, "JSONDecodeError")
            /\ UNCHANGED <<keys, users>>
       ELSE IF KeyWithoutValue(Section(file, "keys")) THEN
            /\ ret' = Raised("load_state", NoArgs, "KeyError")
            /\ UNCHANGED <<keys, users>>
       ELSE /\ ReplaceState(ParseKeys(Section(file, "keys")),
                            ParseUsers(Section(file, "users")))
            /\ ret' = Returned("load_state", NoArgs, NoVal)
    /\ UNCHANGED <<scheme, calls, matrixVars, config, diskVars>>

PersistNext ==
    \/ KeyServerInit
    \/ GenerateKeyPool
    \/ \E u \in PersistUserIds : RegisterUser(u)
    \/ \E a \in PersistUserIds, b \in PersistUserIds : ComputeSharedKey(a, b)
    \/ SaveState
    \/ LoadState

----------------------------------------------------------------------------
(* Pool scheme: the front end's re-initialisation and files written by others *)

\* the configs entered in the front end's pool size and keys per user fields
RestoreConfigs == [KEY_POOL_SIZE : {0, 2}, KEYS_PER_USER : {1}]

\* documents found at the state file's path that save_state did not write: a
\* truncated file, a key entry without its value, a document without its keys
ForeignDocs ==
    {[exists |-> TRUE, truncated |-> TRUE],
     [exists |-> TRUE,
      keys |-> (StrOfInt(0) :> [key_id |-> 0]),
      users |-> ("bob" :> [user_id |-> "bob", key_ids |-> <<0>>])],
     [exists |-> TRUE,
      users |-> ("alice" :> [user_id |-> "alice", key_ids |-> <<0>>])]}

\* initialize_system: a new KeyServer of the entered config, its pool generated
InitializeSystem(cfg) ==
    /\ scheme = "pool"
    /\ config' = cfg
    /\ keys' \in GeneratedPools(cfg.KEY_POOL_SIZE)
    /\ users' = EmptyDict
    /\ ret' = Returned("initialize_system", <<cfg.KEY_POOL_SIZE, cfg.KEYS_PER_USER>>, NoVal)
    /\ UNCHANGED <<scheme, calls, matrixVars, diskVars>>

\* the file load_state will open is written by something other than save_state
ForeignWrite(doc) ==
    /\ scheme = "pool"
    /\ file' = doc
    /\ snapshot' = NoSnapshot
    /\ ret' = Returned("foreign_write", NoArgs, NoVal)
    /\ UNCHANGED <<scheme, calls, matrixVars, poolVars>>

RestoreNext ==
    \/ \E cfg \in RestoreConfigs : InitializeSystem(cfg)
    \/ GenerateKeyPool
    \/ \E u \in PersistUserIds : RegisterUser(u)
    \/ SaveState
    \/ \E doc \in ForeignDocs : ForeignWrite(doc)
    \/ LoadState

----------------------------------------------------------------------------
(* Calls of several threads into one server: the steps between which the      *)
(* interpreter can switch threads are the reads and writes of the shared      *)
(* dictionaries; what a call holds in local variables is in calls[t].local    *)

\* configs of the runs with threads
ThreadConfigs == [KEY_POOL_SIZE : {2}, KEYS_PER_USER : {1, 2}]

\* user ids handed to the calls of the threads
ThreadUserIds == {"alice", "bob"}

\* prime and dimension of the MatrixKeyServer the threads share
ThreadMatrixInputs == [prime : {3}, dimension : {1}]

\* thread t can enter a call
CanCall(t) == calls[t].pc \in {"idle", "done"}

\* thread t's call ends with the outcome
Finish(t, outcome) ==
    calls' = [calls EXCEPT ![t] =
                [pc |-> "done", args |-> NoArgs, local |-> NoVal, result |-> outcome]]

\* thread t's call goes on at pc with the local variables
Goto(t, pc, args, local) ==
    calls' = [calls EXCEPT ![t] =
                [pc |-> pc, args |-> args, local |-> local, result |-> NoVal]]

\* KeyServer.register_user: if not self._keys: raise RuntimeError
RegisterUserCheckPool(t, user_id) ==
    /\ scheme = "pool"
    /\ CanCall(t)
    /\ IF DOMAIN keys = {}
       THEN Finish(t, Raised("register_user", <<user_id>>, "RuntimeError:empty_pool"))
       ELSE Goto(t, "check_user", <<user_id>>, NoVal)
    /\ UNCHANGED <<scheme, matrixVars, poolVars, diskVars, ret>>

\* if user_id in self._users: return self._users[user_id]
RegisterUserCheckUser(t) ==
    /\ calls[t].pc = "check_user"
    /\ LET user_id == calls[t].args[1]
       IN  IF IsRegistered(user_id)
           THEN Finish(t, Returned("register_user", <<user_id>>, users[user_id]))
           ELSE Goto(t, "check_enough", <<user_id>>, NoVal)
    /\ UNCHANGED <<scheme, matrixVars, poolVars, diskVars, ret>>

\* if self.config.KEYS_PER_USER > len(self._keys): raise ValueError
RegisterUserCheckEnough(t) ==
    /\ calls[t].pc = "check_enough"
    /\ LET user_id == calls[t].args[1]
       IN  IF NotEnoughKeys(config.KEYS_PER_USER, keys)
           THEN Finish(t, Raised("register_user", <<user_id>>, "ValueError:not_enough_keys"))
           ELSE Goto(t, "sample", <<user_id>>, NoVal)
    /\ UNCHANGED <<scheme, matrixVars, poolVars, diskVars, ret>>

\* key_ids = set(random.sample(list(self._keys.keys()), KEYS_PER_USER));
\* user = User(user_id, key_ids)
RegisterUserSample(t) ==
    /\ calls[t].pc = "sample"
    /\ LET user_id == calls[t].args[1]
       IN  IF config.KEYS_PER_USER > Cardinality(DOMAIN keys)
           THEN Finish(t, Raised("register_user", <<user_id>>, "ValueError:sample"))
           ELSE \E key_ids \in SampleKeyIds(DOMAIN keys, config.KEYS_PER_USER) :
                    Goto(t, "store", <<user_id>>, User(user_id, key_ids))
    /\ UNCHANGED <<scheme, matrixVars, poolVars, diskVars, ret>>

\* self._users[user_id] = user; return user
RegisterUserStore(t) ==
    /\ calls[t].pc = "store"
    /\ users' = WithUser(users, calls[t].local)
    /\ Finish(t, Returned("register_user", calls[t].args, calls[t].local))
    /\ UNCHANGED <<scheme, matrixVars, config, keys, diskVars, ret>>

\* KeyServer.generate_key_pool: self._keys.clear()
GenerateKeyPoolClear(t) ==
    /\ scheme = "pool"
    /\ CanCall(t)
    /\ keys' = EmptyDict
    /\ IF config.KEY_POOL_SIZE = 0
       THEN Finish(t, Returned("generate_key_pool", NoArgs, NoVal))
       ELSE Goto(t, "fill", NoArgs, 0)
    /\ UNCHANGED <<scheme, matrixVars, config, users, diskVars, ret>>

\* one round of the loop: self._keys[key_id] = Key(key_id, secrets.token_hex(16))
GenerateKeyPoolFill(t) ==
    /\ calls[t].pc = "fill"
    /\ LET key_id == calls[t].local
       IN  /\ \E value \in Tokens : keys' = (key_id :> Key(key_id, value)) @@ keys
           /\ IF key_id + 1 = config.KEY_POOL_SIZE
              THEN Finish(t, Returned("generate_key_pool", NoArgs, NoVal))
              ELSE Goto(t, "fill", NoArgs, key_id + 1)
    /\ UNCHANGED <<scheme, matrixVars, config, users, diskVars, ret>>

\* SharedKeyService.compute_shared_key: shared_ids = self.common_key_ids(a, b);
\* if not shared_ids: return None
ComputeSharedKeyCommonIds(t, user_a_id, user_b_id) ==
    /\ scheme = "pool"
    /\ CanCall(t)
    /\ LET op == "compute_shared_key"
           args == <<user_a_id, user_b_id>>
       IN  IF ~BothRegistered(users, user_a_id, user_b_id)
           THEN Finish(t, Raised(op, args, "ValueError:unregistered"))
           ELSE LET shared_ids == Intersection(users, user_a_id, user_b_id)
                IN  IF NoSharedIds(shared_ids) THEN Finish(t, Returned(op, args, None))
                    ELSE Goto(t, "read_key", args,
                              [todo |-> DerivationOrder(shared_ids), material |-> <<>>])
    /\ UNCHANGED <<scheme, matrixVars, poolVars, diskVars, ret>>

\* one round of the loop: material += bytes.fromhex(get_key_value(key_id)); after
\* the last round, return hashlib.sha256(material).hexdigest()
ComputeSharedKeyReadKey(t) ==
    /\ calls[t].pc = "read_key"
    /\ LET op == "compute_shared_key"
           args == calls[t].args
           key_id == Head(calls[t].local.todo)
           todo == Tail(calls[t].local.todo)
       IN  IF key_id \notin DOMAIN keys THEN Finish(t, Raised(op, args, "KeyError"))
           ELSE LET material == calls[t].local.material \o BytesFromHex(keys[key_id].value)
                IN  IF todo = <<>>
                    THEN Finish(t, Returned(op, args, HexDigest(Sha256(material))))
                    ELSE Goto(t, "read_key", args, [todo |-> todo, material |-> material])
    /\ UNCHANGED <<scheme, matrixVars, poolVars, diskVars, ret>>

\* MatrixKeyServer.register_user: if user_id in self._users: return it
MatrixRegisterUserCheck(t, user_id) ==
    /\ scheme = "matrix"
    /\ m_built
    /\ CanCall(t)
    /\ IF user_id \in DOMAIN m_users
       THEN Finish(t, Returned("register_user", <<user_id>>, m_users[user_id]))
       ELSE Goto(t, "draw", <<user_id>>, NoVal)
    /\ UNCHANGED <<scheme, matrixVars, poolVars, diskVars, ret>>

\* secret_vector = [randbelow(prime) ...]; public_vector = matrix * secret_vector
MatrixRegisterUserDraw(t) ==
    /\ calls[t].pc = "draw"
    /\ \E secret_vector \in [1..dimension -> RandBelow(prime)] :
        LET public_vector ==
                MatrixVectorProduct(secret_matrix, dimension, prime, secret_vector)
        IN  Goto(t, "m_store", calls[t].args,
                 MatrixUser(calls[t].args[1], secret_vector, public_vector))
    /\ UNCHANGED <<scheme, matrixVars, poolVars, diskVars, ret>>

\* self._users[user_id] = user; return user
MatrixRegisterUserStore(t) ==
    /\ calls[t].pc = "m_store"
    /\ m_users' = (calls[t].args[1] :> calls[t].local) @@ m_users
    /\ Finish(t, Returned("register_user", calls[t].args, calls[t].local))
    /\ UNCHANGED <<scheme, m_built, prime, dimension, secret_matrix, poolVars, diskVars, ret>>

ThreadsNext ==
    \E t \in Threads :
        \/ \E u \in ThreadUserIds : RegisterUserCheckPool(t, u)
        \/ RegisterUserCheckUser(t)
        \/ RegisterUserCheckEnough(t)
        \/ RegisterUserSample(t)
        \/ RegisterUserStore(t)
        \/ GenerateKeyPoolClear(t)
        \/ GenerateKeyPoolFill(t)
        \/ \E a \in ThreadUserIds, b \in ThreadUserIds : ComputeSharedKeyCommonIds(t, a, b)
        \/ ComputeSharedKeyReadKey(t)
        \/ \E u \in ThreadUserIds : MatrixRegisterUserCheck(t, u)
        \/ MatrixRegisterUserDraw(t)
        \/ MatrixRegisterUserStore(t)

----------------------------------------------------------------------------
(* The program *)

NoConfig == [KEY_POOL_SIZE |-> 0, KEYS_PER_USER |-> 0]

MatrixIdle ==
    /\ m_built = FALSE
    /\ prime = 0
    /\ dimension = 0
    /\ secret_matrix = <<>>
    /\ m_users = EmptyDict

PoolIdle ==
    /\ config = NoConfig
    /\ keys = EmptyDict
    /\ users = EmptyDict

\* main() --matrix-demo: no MatrixKeyServer yet
InitMatrix ==
    /\ scheme = "matrix"
    /\ MatrixIdle
    /\ PoolIdle
    /\ file = NoFile
    /\ snapshot = NoSnapshot
    /\ ret = Returned("main", NoArgs, NoVal)
    /\ calls = NoCalls

\* KeyServer(config) has been constructed, no state file is on disk
PoolConstructed(configs) ==
    /\ scheme = "pool"
    /\ MatrixIdle
    /\ config \in configs
    /\ keys = EmptyDict
    /\ users = EmptyDict
    /\ file = NoFile
    /\ snapshot = NoSnapshot
    /\ ret = Returned("KeyServer", NoArgs, NoVal)
    /\ calls = NoCalls

\* main() default
InitPool == PoolConstructed(Configs)

InitPersist == PoolConstructed(PersistConfigs)

Init == InitMatrix \/ InitPool

Next == MatrixNext \/ PoolNext

Spec == Init /\ [][Next]_vars

SpecMatrix == InitMatrix /\ [][MatrixNext]_vars

SpecPool == InitPool /\ [][PoolNext]_vars

SpecPersist == InitPersist /\ [][PersistNext]_vars

InitRestore == PoolConstructed(RestoreConfigs)

SpecRestore == InitRestore /\ [][RestoreNext]_vars

\* generate_key_pool has returned on a KeyServer that threads then share
InitThreadsPool ==
    /\ scheme = "pool"
    /\ MatrixIdle
    /\ config \in ThreadConfigs
    /\ keys \in GeneratedPools(config.KEY_POOL_SIZE)
    /\ users = EmptyDict
    /\ file = NoFile
    /\ snapshot = NoSnapshot
    /\ ret = Returned("generate_key_pool", NoArgs, NoVal)
    /\ calls = NoCalls

\* MatrixKeyServer(prime, dimension) has returned an object that threads then share
InitThreadsMatrix ==
    /\ scheme = "matrix"
    /\ m_built = TRUE
    /\ \E inputs \in ThreadMatrixInputs :
        /\ prime = inputs.prime
        /\ dimension = inputs.dimension
    /\ \E draw \in [UpperPairs(dimension) -> RandBelow(prime)] :
        secret_matrix = GenerateSymmetricMatrix(dimension, draw)
    /\ m_users = EmptyDict
    /\ PoolIdle
    /\ file = NoFile
    /\ snapshot = NoSnapshot
    /\ ret = Returned("MatrixKeyServer", <<prime, dimension>>, NoVal)
    /\ calls = NoCalls

InitThreads == InitThreadsPool \/ InitThreadsMatrix

SpecThreads == InitThreads /\ [][ThreadsNext]_vars

\* MatrixKeyServer(prime=23, dimension=2) whose draws were 3, 5, 7
InitScenario ==
    /\ scheme = "matrix"
    /\ m_built = TRUE
    /\ prime = 23
    /\ dimension = 2
    /\ secret_matrix = GenerateSymmetricMatrix(2, (<<1, 1>> :> 3) @@ (<<1, 2>> :> 5) @@ (<<2, 2>> :> 7))
    /\ m_users = EmptyDict
    /\ PoolIdle
    /\ file = NoFile
    /\ snapshot = NoSnapshot
    /\ ret = Returned("MatrixKeyServer", <<23, 2>>, NoVal)
    /\ calls = NoCalls

ScenarioNext ==
    \/ \E u \in MatrixUserIds : MatrixRegisterUser(u)
    \/ \E u \in MatrixUserIds : MatrixGetUser(u)
    \/ MatrixAllUsers
    \/ \E a \in MatrixUserIds, b \in MatrixUserIds : ComputeSharedValue(a, b)

SpecScenario == InitScenario /\ [][ScenarioNext]_vars

----------------------------------------------------------------------------
(* Properties *)

\* C1: in the matrix scheme, compute_shared_value(a, b) and
\* compute_shared_value(b, a) return the same value for every pair of registered
\* users a, b (a = b included), whatever the prime, the dimension, the generated
\* matrix and the registrations made.
SharedValueSymmetric ==
    \A a \in DOMAIN m_users, b \in DOMAIN m_users :
        /\ ComputeSharedValueOutcome(a, b).kind = "return"
        /\ ComputeSharedValueOutcome(a, b).val = ComputeSharedValueOutcome(b, a).val

\* compute_shared_value(A, B) has returned a non-zero value on a 2 x 2 matrix with
\* a non-zero off-diagonal entry, for users with different secret vectors
SharedValueSymmetricWitness ==
    /\ ret.op = "compute_shared_value"
    /\ ret.kind = "return"
    /\ ret.args = <<"A", "B">>
    /\ ret.val # 0
    /\ dimension = 2
    /\ secret_matrix[1][2] # 0
    /\ secret_matrix[1][1] # secret_matrix[2][2]
    /\ m_users["A"].secret_vector # m_users["B"].secret_vector

\* C2: in the pool scheme with KEYS_PER_USER <= KEY_POOL_SIZE, every registered
\* user holds exactly KEYS_PER_USER distinct key ids, all in [0, KEY_POOL_SIZE),
\* in every state reached by generate_key_pool and register_user calls.
UsersHoldKeysPerUserIds ==
    config.KEYS_PER_USER <= config.KEY_POOL_SIZE =>
        \A u \in DOMAIN users :
            /\ Cardinality(users[u].key_ids) = config.KEYS_PER_USER
            /\ users[u].key_ids \subseteq 0..(config.KEY_POOL_SIZE - 1)

\* three users are registered, each with 2 of the 3 keys, not all the same two
UsersHoldKeysPerUserIdsWitness ==
    /\ ret.op = "register_user"
    /\ config.KEY_POOL_SIZE = 3
    /\ config.KEYS_PER_USER = 2
    /\ DOMAIN users = PoolUserIds
    /\ users["alice"].key_ids # users["bob"].key_ids

\* C3: register_user of an id that is already registered returns the stored
\* assignment and changes neither the user map nor the secret material, in both
\* schemes; and no step changes or removes a stored assignment, so what is
\* returned is the assignment of the first registration however many other
\* registrations came in between.
RegistrationIdempotent ==
    [][/\ (scheme = "pool" /\ ret'.op = "register_user" /\ ret'.args[1] \in DOMAIN users) =>
            /\ ret'.kind = "return"
            /\ ret'.val = users[ret'.args[1]]
            /\ users' = users
            /\ keys' = keys
       /\ (scheme = "matrix" /\ ret'.op = "register_user" /\ ret'.args[1] \in DOMAIN m_users) =>
            /\ ret'.kind = "return"
            /\ ret'.val = m_users[ret'.args[1]]
            /\ m_users' = m_users
            /\ secret_matrix' = secret_matrix
       /\ \A u \in DOMAIN users : u \in DOMAIN users' /\ users'[u] = users[u]
       /\ \A u \in DOMAIN m_users : u \in DOMAIN m_users' /\ m_users'[u] = m_users[u]
      ]_vars

\* register_user("alice") has returned alice's stored key ids while bob and carol
\* are registered too and hold other key ids
RegistrationIdempotentWitness ==
    /\ scheme = "pool"
    /\ ret.op = "register_user"
    /\ ret.kind = "return"
    /\ ret.args = <<"alice">>
    /\ DOMAIN users = PoolUserIds
    /\ ret.val = users["alice"]
    /\ users["bob"].key_ids # users["alice"].key_ids
    /\ users["carol"].key_ids # users["alice"].key_ids

\* C4: for registered users a, b, common_key_ids(a, b) = common_key_ids(b, a) and
\* compute_shared_key(a, b) = compute_shared_key(b, a): both None or the same digest.
PoolDerivationSymmetric ==
    \A a \in DOMAIN users, b \in DOMAIN users :
        /\ CommonKeyIdsOutcome(users, a, b).kind = "return"
        /\ CommonKeyIdsOutcome(users, a, b).val = CommonKeyIdsOutcome(users, b, a).val
        /\ SharedKeyOutcome(keys, users, a, b).kind = SharedKeyOutcome(keys, users, b, a).kind
        /\ SharedKeyOutcome(keys, users, a, b).val = SharedKeyOutcome(keys, users, b, a).val

\* compute_shared_key(alice, bob) has returned a digest for two users whose key
\* rings differ
PoolDerivationSymmetricWitness ==
    /\ ret.op = "compute_shared_key"
    /\ ret.kind = "return"
    /\ ret.args = <<"alice", "bob">>
    /\ ret.val # None
    /\ users["alice"].key_ids # users["bob"].key_ids

\* the id of shared_ids with exactly rank smaller ids in shared_ids
IdOfRank(shared_ids, rank) ==
    CHOOSE id \in shared_ids : Cardinality({other \in shared_ids : other < id}) = rank

\* the bytes a manual recomputation hashes: block number rank (from 0) of
\* TokenNBytes bytes is the value of the shared id of that rank
ManualMaterial(shared_ids) ==
    [i \in 1..(TokenNBytes * Cardinality(shared_ids)) |->
        LET id == IdOfRank(shared_ids, (i - 1) \div TokenNBytes)
        IN  BytesFromHex(keys[id].value)[((i - 1) % TokenNBytes) + 1]]

\* C5: for registered users a, b, compute_shared_key(a, b) returns None exactly
\* when their key-id sets do not intersect, never the digest of empty input, and
\* otherwise the SHA-256 hex digest of the key values of the common ids
\* concatenated in ascending id order.
SharedKeyIsManualRecomputation ==
    /\ \A a \in DOMAIN users, b \in DOMAIN users :
        LET out == SharedKeyOutcome(keys, users, a, b)
            shared_ids == users[a].key_ids \cap users[b].key_ids
        IN  /\ out.kind = "return"
            /\ (out.val = None) <=> (shared_ids = {})
            /\ out.val # HexDigest(Sha256(<<>>))
            /\ shared_ids # {} => out.val = HexDigest(Sha256(ManualMaterial(shared_ids)))
    /\ (ret.op = "compute_shared_key" /\ ret.kind = "return") =>
            LET shared_ids == users[ret.args[1]].key_ids \cap users[ret.args[2]].key_ids
            IN  ret.val = IF shared_ids = {} THEN None
                          ELSE HexDigest(Sha256(ManualMaterial(shared_ids)))

\* compute_shared_key(alice, bob) has returned a digest over two shared keys whose
\* values differ
SharedKeyIsManualRecomputationWitness ==
    /\ ret.op = "compute_shared_key"
    /\ ret.kind = "return"
    /\ ret.args = <<"alice", "bob">>
    /\ users["alice"].key_ids \cap users["bob"].key_ids = {0, 1}
    /\ keys[0].value # keys[1].value

\* C6 as stated: between two compute_shared_key(a, b) calls nothing changes the
\* result as long as neither user's key-id set changes, whatever runs in between
\* (generate_key_pool included).
DerivationDeterministicAcrossAnyStep ==
    [][\A a \in DOMAIN users, b \in DOMAIN users :
        (/\ a \in DOMAIN users' /\ b \in DOMAIN users'
         /\ users'[a].key_ids = users[a].key_ids
         /\ users'[b].key_ids = users[b].key_ids)
        => SharedKeyOutcome(keys', users', a, b) = SharedKeyOutcome(keys, users, a, b)
      ]_vars

\* C6, amended: every call other than generate_key_pool (register_user of any id,
\* the accessors, the derivations) keeps every registered pair registered and
\* leaves compute_shared_key(a, b) unchanged, so two calls with only such calls
\* between them return the identical result.
DerivationDeterministic ==
    [][ret'.op # "generate_key_pool" =>
        \A a \in DOMAIN users, b \in DOMAIN users :
            /\ a \in DOMAIN users' /\ b \in DOMAIN users'
            /\ (keys' # keys \/ users' # users) =>
                SharedKeyOutcome(keys', users', a, b) = SharedKeyOutcome(keys, users, a, b)
      ]_vars

\* compute_shared_key(alice, bob) has returned a digest while carol, a third
\* user, is registered too
DerivationDeterministicWitness ==
    /\ ret.op = "compute_shared_key"
    /\ ret.kind = "return"
    /\ ret.args = <<"alice", "bob">>
    /\ ret.val # None
    /\ "carol" \in DOMAIN users

\* C7: load_state of the file save_state wrote, into a server of the same config,
\* reproduces every key (id and value) and every user's key-id set, and
\* compute_shared_key of every pair returns what it returned before saving.
SaveLoadRoundTrip ==
    (/\ ret.op = "load_state"
     /\ ret.kind = "return"
     /\ snapshot.taken
     /\ snapshot.config = config)
    =>  /\ keys = snapshot.keys
        /\ users = snapshot.users
        /\ \A a \in DOMAIN snapshot.users, b \in DOMAIN snapshot.users :
            SharedKeyOutcome(keys, users, a, b)
                = SharedKeyOutcome(snapshot.keys, snapshot.users, a, b)

\* load_state has returned with two keys of different values and two users with
\* different non-empty key rings in the file
SaveLoadRoundTripWitness ==
    /\ ret.op = "load_state"
    /\ ret.kind = "return"
    /\ DOMAIN snapshot.keys = {0, 1}
    /\ snapshot.keys[0].value # snapshot.keys[1].value
    /\ DOMAIN snapshot.users = PersistUserIds
    /\ snapshot.users["alice"].key_ids = {0}
    /\ snapshot.users["bob"].key_ids = {1}

\* C8: with prime 23, dimension 2 and matrix [[3,5],[5,7]], secret vector [2,1]
\* gets public vector [11,17], secret vector [4,3] gets public vector [4,18], and
\* compute_shared_value between the two users is 3 in both directions.
ConcreteScenario ==
    /\ \A u \in DOMAIN m_users :
        /\ m_users[u].secret_vector = <<2, 1>> => m_users[u].public_vector = <<11, 17>>
        /\ m_users[u].secret_vector = <<4, 3>> => m_users[u].public_vector = <<4, 18>>
    /\ \A a \in DOMAIN m_users, b \in DOMAIN m_users :
        (m_users[a].secret_vector = <<2, 1>> /\ m_users[b].secret_vector = <<4, 3>>)
        =>  /\ ComputeSharedValueOutcome(a, b) = Returned("compute_shared_value", <<a, b>>, 3)
            /\ ComputeSharedValueOutcome(b, a) = Returned("compute_shared_value", <<b, a>>, 3)
    /\ (/\ ret.op = "compute_shared_value"
        /\ ret.kind = "return"
        /\ {m_users[ret.args[1]].secret_vector, m_users[ret.args[2]].secret_vector}
                = {<<2, 1>>, <<4, 3>>})
       => ret.val = 3

\* compute_shared_value(B, A) has returned, A holding [2,1] and B holding [4,3]
ConcreteScenarioWitness ==
    /\ ret.op = "compute_shared_value"
    /\ ret.kind = "return"
    /\ ret.args = <<"B", "A">>
    /\ secret_matrix = <<<<3, 5>>, <<5, 7>>>>
    /\ prime = 23
    /\ m_users["A"].secret_vector = <<2, 1>>
    /\ m_users["B"].secret_vector = <<4, 3>>

\* C9: MatrixKeyServer(prime, dimension) raises its invalid-parameter error when
\* prime <= 2 or dimension <= 0, and then no matrix was generated and no user map
\* exists; for prime > 2 and dimension >= 1 it succeeds.
MatrixInitValidates ==
    /\ ret.op = "MatrixKeyServer" =>
        LET p == ret.args[1]
            d == ret.args[2]
        IN  IF p <= 2 \/ d <= 0
            THEN /\ ret.kind \in {"ValueError:prime", "ValueError:dimension"}
                 /\ ~m_built
            ELSE /\ ret.kind = "return"
                 /\ m_built
                 /\ prime = p
                 /\ dimension = d
                 /\ Len(secret_matrix) = d
    /\ ~m_built => (secret_matrix = <<>> /\ m_users = EmptyDict)
    /\ m_built => (prime > 2 /\ dimension >= 1)

\* MatrixKeyServer(prime=2, dimension=1) has raised and no server exists
MatrixInitValidatesWitness ==
    /\ ret.op = "MatrixKeyServer"
    /\ ret.args = <<2, 1>>
    /\ ret.kind = "ValueError:prime"
    /\ ~m_built

\* C10 as stated: register_user of a new id with KEYS_PER_USER above the number of
\* keys in the pool raises the insufficient-pool error and changes nothing.
InsufficientPoolAlwaysReported ==
    [][(/\ ret'.op = "register_user"
        /\ ret'.args[1] \notin DOMAIN users
        /\ config.KEYS_PER_USER > Cardinality(DOMAIN keys))
       => /\ ret'.kind = "ValueError:not_enough_keys"
          /\ users' = users
          /\ keys' = keys
      ]_vars

\* C10, amended: such a call raises the insufficient-pool error when the pool holds
\* at least one key and the empty-pool error when it holds none; either way the
\* user map and the pool are unchanged, and no stored user ever has fewer than
\* KEYS_PER_USER keys.
InsufficientPoolRejected ==
    [][/\ (/\ ret'.op = "register_user"
           /\ ret'.args[1] \notin DOMAIN users
           /\ config.KEYS_PER_USER > Cardinality(DOMAIN keys))
          => /\ ret'.kind = IF DOMAIN keys = {} THEN "RuntimeError:empty_pool"
                            ELSE "ValueError:not_enough_keys"
             /\ users' = users
             /\ keys' = keys
       /\ \A u \in DOMAIN users' :
            Cardinality(users'[u].key_ids) >= config.KEYS_PER_USER
      ]_vars

\* register_user("alice") has raised the insufficient-pool error on a pool of one
\* key with KEYS_PER_USER = 2, and nobody is registered
InsufficientPoolRejectedWitness ==
    /\ ret = Raised("register_user", <<"alice">>, "ValueError:not_enough_keys")
    /\ Cardinality(DOMAIN keys) = 1
    /\ config.KEYS_PER_USER = 2
    /\ users = EmptyDict

\* C11: a call that names an unregistered id, in either position, fails with the
\* unknown-user error (common_key_ids, compute_shared_key, compute_shared_key_bytes
\* of the pool scheme; get_user, compute_shared_value of the matrix scheme) and
\* leaves the pool or matrix and the user map unchanged: the id is not registered.
UnknownUserRejected ==
    [][/\ (/\ scheme = "pool"
           /\ ret'.op \in {"common_key_ids", "compute_shared_key", "compute_shared_key_bytes"}
           /\ (ret'.args[1] \notin DOMAIN users \/ ret'.args[2] \notin DOMAIN users))
          => /\ ret'.kind = "ValueError:unregistered"
             /\ keys' = keys
             /\ users' = users
       /\ (/\ scheme = "matrix"
           /\ \/ ret'.op = "get_user" /\ ret'.args[1] \notin DOMAIN m_users
              \/ /\ ret'.op = "compute_shared_value"
                 /\ (ret'.args[1] \notin DOMAIN m_users \/ ret'.args[2] \notin DOMAIN m_users))
          => /\ ret'.kind = "KeyError"
             /\ secret_matrix' = secret_matrix
             /\ m_users' = m_users
      ]_vars

\* common_key_ids(alice, carol) has raised the unknown-user error, alice being
\* registered on a generated pool and carol, the second id, not
UnknownUserRejectedWitness ==
    /\ ret = Raised("common_key_ids", <<"alice", "carol">>, "ValueError:unregistered")
    /\ "alice" \in DOMAIN users
    /\ "carol" \notin DOMAIN users
    /\ DOMAIN keys # {}

\* C12 as stated: register_user of an id that is already registered returns the
\* stored assignment and changes nothing in every state, a state with an empty
\* pool included, and the empty-pool error is raised only for ids that are not
\* registered.
ExistingUserReturnedBeforePoolCheck ==
    [][(/\ scheme = "pool"
        /\ ret'.op = "register_user"
        /\ ret'.args[1] \in DOMAIN users)
       => /\ ret'.kind = "return"
          /\ ret'.val = users[ret'.args[1]]
          /\ users' = users
          /\ keys' = keys
      ]_vars

\* the document has the shape save_state writes: a keys and a users section, every
\* key with its id and value, every user with its id and key ids
WellFormedDoc(doc) ==
    /\ {"keys", "users"} \subseteq DOMAIN doc
    /\ \A key_id_str \in DOMAIN doc.keys :
        {"key_id", "value"} \subseteq DOMAIN doc.keys[key_id_str]
    /\ \A user_id \in DOMAIN doc.users :
        {"user_id", "key_ids"} \subseteq DOMAIN doc.users[user_id]

\* C13 as stated: load_state on a missing file or on malformed data raises an
\* error and leaves keys and users exactly as they were; otherwise it replaces
\* both together by the keys and the users of the file, so keys and users never
\* come from different snapshots.
LoadStateAllOrNothing ==
    [][ret'.op = "load_state" =>
        IF ~file.exists \/ ~WellFormedDoc(file)
        THEN /\ ret'.kind # "return"
             /\ keys' = keys
             /\ users' = users
        ELSE /\ ret'.kind = "return"
             /\ keys' = ParseKeys(file.keys)
             /\ users' = ParseUsers(file.users)
      ]_vars

\* C14 as stated: with the steps of two register_user calls for the same new id
\* interleaved, exactly one assignment is ever stored for the id (a stored
\* assignment is never replaced) and both calls return the same assignment, in the
\* pool scheme and in the matrix scheme.
RegistrationAtomicPerUserId ==
    [][/\ \A u \in DOMAIN users : u \in DOMAIN users' /\ users'[u] = users[u]
       /\ \A u \in DOMAIN m_users : u \in DOMAIN m_users' /\ m_users'[u] = m_users[u]
       /\ \A t \in Threads, o \in Threads :
            (/\ calls'[t].pc = "done"
             /\ calls'[o].pc = "done"
             /\ calls'[t].result.op = "register_user"
             /\ calls'[o].result.op = "register_user"
             /\ calls'[t].result.kind = "return"
             /\ calls'[o].result.kind = "return"
             /\ calls'[t].result.args = calls'[o].result.args)
            => calls'[t].result.val = calls'[o].result.val
      ]_vars

\* the program counters of a call that is inside register_user or compute_shared_key
InsideRegisterOrDerive == {"check_user", "check_enough", "sample", "store", "read_key"}

\* C15 as stated: no register_user or compute_shared_key call is in progress
\* while generate_key_pool is between clearing and refilling the pool, so with
\* KEYS_PER_USER <= KEY_POOL_SIZE no such call, started on a generated pool, ends
\* with the empty-pool, the insufficient-pool or the missing-key error.
GenerationExcludesCalls ==
    scheme = "pool" =>
        /\ \A t \in Threads, o \in Threads :
            calls[t].pc = "fill" => calls[o].pc \notin InsideRegisterOrDerive
        /\ config.KEYS_PER_USER <= config.KEY_POOL_SIZE =>
            \A t \in Threads :
                calls[t].pc = "done" =>
                    calls[t].result.kind \notin
                        {"RuntimeError:empty_pool", "ValueError:not_enough_keys",
                         "ValueError:sample", "KeyError"}

\* C16: every stored MatrixUser has a secret and a public vector of length
\* dimension with entries in [0, prime), and public_vector[i] is row i of the
\* secret matrix times the secret vector, modulo prime; hence compute_shared_value
\* on two registered users raises no dimension-mismatch error and returns a value
\* in [0, prime).
MatrixUsersWellFormed ==
    /\ \A u \in DOMAIN m_users :
        LET user == m_users[u]
        IN  /\ Len(user.secret_vector) = dimension
            /\ Len(user.public_vector) = dimension
            /\ \A i \in 1..dimension :
                /\ user.secret_vector[i] \in 0..(prime - 1)
                /\ user.public_vector[i] \in 0..(prime - 1)
                /\ user.public_vector[i] =
                    SumTo([k \in 1..dimension |->
                            secret_matrix[i][k] * user.secret_vector[k]], dimension) % prime
    /\ \A a \in DOMAIN m_users, b \in DOMAIN m_users :
        /\ ComputeSharedValueOutcome(a, b).kind = "return"
        /\ ComputeSharedValueOutcome(a, b).val \in 0..(prime - 1)
    /\ (/\ ret.op = "compute_shared_value"
        /\ ret.args[1] \in DOMAIN m_users
        /\ ret.args[2] \in DOMAIN m_users)
       => (ret.kind = "return" /\ ret.val \in 0..(prime - 1))

\* compute_shared_value(B, A) has returned on a server of dimension 2 whose users
\* hold public vectors without a zero entry
MatrixUsersWellFormedWitness ==
    /\ ret.op = "compute_shared_value"
    /\ ret.kind = "return"
    /\ ret.args = <<"B", "A">>
    /\ dimension = 2
    /\ \A u \in MatrixUserIds, i \in 1..2 : m_users[u].public_vector[i] # 0
    /\ m_users["A"].public_vector # m_users["B"].public_vector

\* C17: the secret matrix is dimension x dimension, symmetric, with entries in
\* [0, prime), and it is generated once: no step after the construction, and in
\* particular no register_user, get_user, all_users or compute_shared_value,
\* changes secret_matrix, prime or dimension.
SecretMatrixFixed ==
    [][/\ m_built' =>
            /\ Len(secret_matrix') = dimension'
            /\ \A i \in 1..dimension' :
                /\ Len(secret_matrix'[i]) = dimension'
                /\ \A j \in 1..dimension' :
                    /\ secret_matrix'[i][j] = secret_matrix'[j][i]
                    /\ secret_matrix'[i][j] \in 0..(prime' - 1)
       /\ (m_built \/ ret'.op \in {"register_user", "get_user", "all_users",
                                   "compute_shared_value"})
          => /\ secret_matrix' = secret_matrix
             /\ prime' = prime
             /\ dimension' = dimension
      ]_vars

\* register_user("B") has returned a new user on a 2 x 2 matrix with a non-zero
\* entry off the diagonal, A being registered before
SecretMatrixFixedWitness ==
    /\ ret.op = "register_user"
    /\ ret.kind = "return"
    /\ ret.args = <<"B">>
    /\ dimension = 2
    /\ secret_matrix[1][2] # 0
    /\ secret_matrix[1][2] = secret_matrix[2][1]
    /\ DOMAIN m_users = MatrixUserIds

\* C18: a register_user that returns for a new id adds exactly that user, the one
\* it returns, and changes neither the pool or matrix nor any stored assignment;
\* a register_user that fails, and every derivation and accessor, changes nothing.
RegisterUserFrame ==
    [][/\ (scheme = "pool" /\ ret'.op = "register_user") =>
            /\ keys' = keys
            /\ config' = config
            /\ IF ret'.kind = "return" /\ ret'.args[1] \notin DOMAIN users
               THEN /\ DOMAIN users' = DOMAIN users \cup {ret'.args[1]}
                    /\ users'[ret'.args[1]] = ret'.val
                    /\ ret'.val.user_id = ret'.args[1]
                    /\ \A u \in DOMAIN users : users'[u] = users[u]
               ELSE users' = users
       /\ (scheme = "matrix" /\ ret'.op = "register_user") =>
            /\ secret_matrix' = secret_matrix
            /\ prime' = prime
            /\ dimension' = dimension
            /\ IF ret'.kind = "return" /\ ret'.args[1] \notin DOMAIN m_users
               THEN /\ DOMAIN m_users' = DOMAIN m_users \cup {ret'.args[1]}
                    /\ m_users'[ret'.args[1]] = ret'.val
                    /\ ret'.val.user_id = ret'.args[1]
                    /\ \A u \in DOMAIN m_users : m_users'[u] = m_users[u]
               ELSE m_users' = m_users
       /\ ret'.op \in {"get_user", "get_all_users", "get_all_keys", "get_key_value",
                       "common_key_ids", "compute_shared_key", "compute_shared_key_bytes",
                       "all_users", "compute_shared_value"}
          => UNCHANGED <<matrixVars, poolVars>>
      ]_vars

\* register_user("carol") has returned carol's new assignment, alice and bob being
\* registered with key rings of their own
RegisterUserFrameWitness ==
    /\ scheme = "pool"
    /\ ret.op = "register_user"
    /\ ret.kind = "return"
    /\ ret.args = <<"carol">>
    /\ ret.val = users["carol"]
    /\ DOMAIN users = PoolUserIds
    /\ users["alice"].key_ids # users["bob"].key_ids
    /\ users["carol"].key_ids # users["alice"].key_ids
    /\ users["carol"].key_ids # users["bob"].key_ids

\* C19 as stated: with KEY_POOL_SIZE = 0 or KEYS_PER_USER = 0, a register_user
\* that follows generate_key_pool succeeds and stores a user with no key ids, and
\* compute_shared_key between two registered users returns None.
DegenerateConfigsRegister ==
    [][(/\ scheme = "pool"
        /\ config.KEY_POOL_SIZE = 0 \/ config.KEYS_PER_USER = 0)
       => /\ (ret.op = "generate_key_pool" /\ ret'.op = "register_user") =>
                /\ ret'.kind = "return"
                /\ ret'.val.key_ids = {}
                /\ ret'.args[1] \in DOMAIN users'
                /\ users'[ret'.args[1]] = ret'.val
          /\ (/\ ret'.op = "compute_shared_key"
              /\ ret'.args[1] \in DOMAIN users
              /\ ret'.args[2] \in DOMAIN users)
             => ret' = Returned("compute_shared_key", ret'.args, None)
      ]_vars

\* C20: in every state reached by generate_key_pool and register_user calls, every
\* key id a registered user holds is an id of the pool, also after
\* generate_key_pool has run again while users exist (the users are kept and the
\* ids are again 0 .. KEY_POOL_SIZE-1); hence compute_shared_key of two registered
\* users raises no missing-key error and returns None or a digest.
UserKeyIdsInPool ==
    /\ \A u \in DOMAIN users : users[u].key_ids \subseteq DOMAIN keys
    /\ DOMAIN keys \in {{}, 0..(config.KEY_POOL_SIZE - 1)}
    /\ users # EmptyDict => DOMAIN keys = 0..(config.KEY_POOL_SIZE - 1)
    /\ (/\ ret.op = "compute_shared_key"
        /\ ret.args[1] \in DOMAIN users
        /\ ret.args[2] \in DOMAIN users)
       => /\ ret.kind = "return"
          /\ ret.val = None \/ DOMAIN ret.val = {"hex"}

\* generate_key_pool has returned again while alice and bob are registered with
\* different key rings, and every key they hold is in the new pool
UserKeyIdsInPoolWitness ==
    /\ ret.op = "generate_key_pool"
    /\ {"alice", "bob"} \subseteq DOMAIN users
    /\ users["alice"].key_ids # users["bob"].key_ids
    /\ users["alice"].key_ids \cup users["bob"].key_ids = DOMAIN keys
    /\ keys[0].value # keys[1].value

====
